---- MODULE Spec2Model ----
(***************************************************************************)
(* Session-stream core of the vibex CLI (src/index.js, main): the          *)
(* connection flags, the log queue, the settle timers started by the       *)
(* connect/reconnect handlers, the line handler, the end-of-input          *)
(* shutdown poll and the SIGINT handler.                                   *)
(*                                                                         *)
(* The process is single threaded: every handler runs to completion, so    *)
(* each handler is one action.  The transport (socket.io client) is the    *)
(* environment: it delivers connect / reconnect / disconnect / error       *)
(* signals, and `sock` is its own connection status (socket.connected).    *)
(* `sent` is the sequence of socket.emit calls made by the program.        *)
(***************************************************************************)
EXTENDS Integers, Sequences, FiniteSets, TLC

\* ---- bounds of the model ------------------------------------------------
MaxLines == 2
MaxConns == 2
MaxIdTail == 2

\* ---- values ---------------------------------------------------------------
NotExited == 0 - 1

WhiteSpace == {" ", "\t"}
Digits == {"0", "1", "2", "3", "4", "5", "6", "7", "8", "9"}

\* ---- session identity -------------------------------------------------------

\* a session id value: a string (sequence of characters), or null/undefined;
\* "unset" is the variable before the startup code has assigned it
Str(chars) == [kind |-> "string", s |-> chars]
Null == [kind |-> "null", s |-> <<>>]
Unset == [kind |-> "unset", s |-> <<>>]

Prefix == <<"v", "i", "b", "e", "x", "-">>

\* String.prototype.startsWith
StartsWith(chars, pre) ==
  Len(chars) >= Len(pre) /\ SubSeq(chars, 1, Len(pre)) = pre

\* !sessionId: null, undefined and the empty string are falsy
Falsy(id) == id.kind # "string" \/ Len(id.s) = 0

\* normalizeSessionId that adds the prefix without looking
normalizeSessionId_AlwaysPrefixes(id) ==
  IF Falsy(id) THEN Null ELSE Str(Prefix \o id.s)

\* function normalizeSessionId(sessionId)
normalizeSessionId(id) ==
  IF Falsy(id) THEN Null
  ELSE IF ~StartsWith(id.s, Prefix) THEN Str(Prefix \o id.s)
  ELSE id

\* length of the random part of a generated id
IdRandomLen == 12

\* function generateSessionId(): the ids it may return; of the 36^12 random
\* parts the model takes the one made of GenChar
GenChar == "k"
generateSessionId == {Str(Prefix \o [i \in 1..IdRandomLen |-> GenChar])}

\* options.sessionId as the model's Spec starts with it
DefaultOption == Str(<<"a", "b">>)

\* options.sessionId: absent (the id is generated, with the prefix) or given
\* without the prefix
SessionOptions == {Null, DefaultOption}

\* the raw input lines the model feeds to the line handler
RawLines ==
  { <<>>,
    <<" ", "\t">>,
    <<" ", "h", "i", " ">>,
    <<"7", " ">> }

RECURSIVE TrimLeft(_)
TrimLeft(s) ==
  IF Len(s) > 0 /\ Head(s) \in WhiteSpace THEN TrimLeft(Tail(s)) ELSE s

RECURSIVE TrimRight(_)
TrimRight(s) ==
  IF Len(s) > 0 /\ s[Len(s)] \in WhiteSpace
    THEN TrimRight(SubSeq(s, 1, Len(s) - 1))
    ELSE s

\* String.prototype.trim
Trim(s) == TrimRight(TrimLeft(s))

DigitVal(c) ==
  CASE c = "0" -> 0 [] c = "1" -> 1 [] c = "2" -> 2 [] c = "3" -> 3
    [] c = "4" -> 4 [] c = "5" -> 5 [] c = "6" -> 6 [] c = "7" -> 7
    [] c = "8" -> 8 [] c = "9" -> 9

RECURSIVE NumVal(_)
NumVal(s) ==
  IF Len(s) = 0 THEN 0
  ELSE 10 * NumVal(SubSeq(s, 1, Len(s) - 1)) + DigitVal(s[Len(s)])

\* the part of the JSON grammar the input alphabet can spell: an unsigned
\* integer literal without a leading zero, or the empty object
IsJsonNumber(s) ==
  /\ Len(s) > 0
  /\ \A i \in 1..Len(s) : s[i] \in Digits
  /\ (Len(s) > 1 => s[1] # "0")

IsJsonEmptyObject(s) ==
  /\ Len(s) >= 2
  /\ s[1] = "{"
  /\ s[Len(s)] = "}"
  /\ \A i \in 2..(Len(s) - 1) : s[i] \in WhiteSpace

JsonParses(s) == IsJsonNumber(s) \/ IsJsonEmptyObject(s)

\* JSON.parse of a text that parses
JsonParse(s) ==
  IF IsJsonNumber(s)
    THEN [k |-> "number", n |-> NumVal(s), s |-> <<>>]
    ELSE [k |-> "object", n |-> 0, s |-> <<>>]

TextPayload(s) == [k |-> "string", n |-> 0, s |-> s]

\* a decoder that marks the event as JSON but keeps the raw text as payload
Decode_KeepsRaw(trimmedLine, id) ==
  IF JsonParses(trimmedLine)
    THEN [id |-> id, type |-> "json", payload |-> TextPayload(trimmedLine)]
    ELSE [id |-> id, type |-> "text", payload |-> TextPayload(trimmedLine)]

\* the try/catch of the line handler; `id` is the position of the line in
\* the input, standing for the capture timestamp
Decode(trimmedLine, id) ==
  IF JsonParses(trimmedLine)
    THEN [id |-> id, type |-> "json", payload |-> JsonParse(trimmedLine)]
    ELSE [id |-> id, type |-> "text", payload |-> TextPayload(trimmedLine)]

VARIABLES
  isConnected,       \* let isConnected
  hasJoinedSession,  \* let hasJoinedSession
  logQueue,          \* const logQueue = []
  sock,              \* the transport: "connecting", "connected", "closed"
  timers,            \* pending settle timers: .live were started on the
                     \* connection that is up now, .stale before it; timers
                     \* of one delay fire in the order they were started, so
                     \* the stale ones fire first
  shutdown,          \* "none" (input open), "poll" or "exit" timer pending
  exitCode,          \* NotExited while the process runs
  input,             \* the lines read so far
  sent,              \* the socket.emit('cli-emit', ...) calls so far
  joins,             \* number of socket.emit('join-session', ...) calls
  joinIds,           \* the session ids the join-session calls carried
  rawSessionId,      \* const rawSessionId
  sessionId,         \* const sessionId
  epoch,             \* number of connect events so far
  reconnectDue,      \* a 'reconnect' signal may be delivered
  settled,           \* a timer started on this connection has fired on it
  refused,           \* a server refusal signal was received
  suppressed,        \* hard quota received and no connect event since
  interrupted        \* SIGINT was received

vars == <<isConnected, hasJoinedSession, logQueue, sock, timers, shutdown,
          exitCode, input, sent, joins, joinIds, rawSessionId, sessionId,
          epoch, reconnectDue, settled, refused, suppressed, interrupted>>

\* a cli-emit that carries the id as it was given, not the normalized one
CliEmit_RawId(logData) ==
  [sessionId |-> rawSessionId, id |-> logData.id, type |-> logData.type,
   payload |-> logData.payload]

\* socket.emit('cli-emit', {sessionId, ...logData})
CliEmit(logData) ==
  [sessionId |-> sessionId, id |-> logData.id, type |-> logData.type,
   payload |-> logData.payload]

\* a drain loop that takes from the tail (pop) instead of the head (shift)
RECURSIVE Drain_Pops(_, _)
Drain_Pops(q, out) ==
  IF Len(q) > 0
    THEN Drain_Pops(SubSeq(q, 1, Len(q) - 1), Append(out, CliEmit(q[Len(q)])))
    ELSE out

\* while (logQueue.length > 0) { logData = logQueue.shift(); emit }
RECURSIVE Drain(_, _)
Drain(q, out) ==
  IF Len(q) > 0 THEN Drain(Tail(q), Append(out, CliEmit(Head(q)))) ELSE out

Running == exitCode = NotExited
SocketConnected == sock = "connected"

\* the connection state and the queue as main declares them
CoreInit ==
  /\ joinIds = {}
  /\ isConnected = FALSE
  /\ hasJoinedSession = FALSE
  /\ logQueue = <<>>
  /\ sock = "connecting"
  /\ timers = [stale |-> 0, live |-> 0]
  /\ shutdown = "none"
  /\ exitCode = NotExited
  /\ input = <<>>
  /\ sent = <<>>
  /\ joins = 0
  /\ epoch = 0
  /\ reconnectDue = FALSE
  /\ settled = FALSE
  /\ refused = FALSE
  /\ suppressed = FALSE
  /\ interrupted = FALSE

\* the state when the handlers are installed, options.sessionId being one of
\* `options`: rawSessionId = options.sessionId || generateSessionId()
InitWith(options) ==
  /\ \E opt \in options : \E generated \in generateSessionId :
       rawSessionId = IF Falsy(opt) THEN generated ELSE opt
  /\ sessionId = normalizeSessionId(rawSessionId)
  /\ CoreInit

Init == InitWith({DefaultOption})

\* ---- connect / reconnect -----------------------------------------------

\* socket.on('connect'): body of the handler; the timers still pending were
\* started before this connection
ConnectHandler ==
  /\ isConnected' = TRUE
  /\ joins' = joins + 1
  /\ joinIds' = joinIds \cup {sessionId}
  /\ timers' = [stale |-> timers.stale + timers.live, live |-> 1]
  /\ UNCHANGED <<hasJoinedSession, logQueue, sent>>

\* the transport establishes a connection and fires 'connect'
OnConnect ==
  /\ Running
  /\ UNCHANGED <<rawSessionId, sessionId>>
  /\ sock = "connecting"
  /\ epoch < MaxConns
  /\ sock' = "connected"
  /\ epoch' = epoch + 1
  /\ settled' = FALSE
  /\ suppressed' = FALSE
  /\ ConnectHandler
  /\ UNCHANGED <<shutdown, exitCode, input, reconnectDue, refused,
                 interrupted>>

\* socket.on('reconnect'): body of the handler
ReconnectHandler ==
  /\ isConnected' = TRUE
  /\ joins' = joins + 1
  /\ joinIds' = joinIds \cup {sessionId}
  /\ timers' = IF SocketConnected
                 THEN [timers EXCEPT !.live = @ + 1]
                 ELSE [timers EXCEPT !.stale = @ + 1]
  /\ UNCHANGED <<hasJoinedSession, logQueue, sent>>

\* the transport reports a successful reconnection, at most once for each
\* reconnection, next to the 'connect' of that reconnection
OnReconnect ==
  /\ Running
  /\ UNCHANGED <<rawSessionId, sessionId>>
  /\ reconnectDue
  /\ sock \in {"connecting", "connected"}
  /\ reconnectDue' = FALSE
  /\ ReconnectHandler
  /\ UNCHANGED <<sock, shutdown, exitCode, input, epoch, settled, refused,
                 suppressed, interrupted>>

\* a settle callback that emits the queued events without removing them
SettleCallback_KeepsQueue ==
  /\ hasJoinedSession' = TRUE
  /\ sent' = Drain(logQueue, sent)
  /\ UNCHANGED <<logQueue, isConnected, joins, joinIds>>

\* the setTimeout callback of both handlers
SettleCallback ==
  /\ hasJoinedSession' = TRUE
  /\ sent' = Drain(logQueue, sent)
  /\ logQueue' = <<>>
  /\ UNCHANGED <<isConnected, joins, joinIds>>

\* the oldest pending settle timer fires
SettleTimer ==
  /\ Running
  /\ UNCHANGED <<rawSessionId, sessionId>>
  /\ timers.stale + timers.live > 0
  /\ IF timers.stale > 0
       THEN /\ timers' = [timers EXCEPT !.stale = @ - 1]
            /\ UNCHANGED settled
       ELSE /\ timers' = [timers EXCEPT !.live = @ - 1]
            /\ settled' = TRUE
  /\ SettleCallback
  /\ UNCHANGED <<sock, shutdown, exitCode, input, epoch, reconnectDue,
                 refused, suppressed, interrupted>>

\* ---- transport failures ---------------------------------------------------

DisconnectReasons == {"transport close", "ping timeout", "io server disconnect"}

\* socket.on('disconnect'): body of the handler
DisconnectHandler(reason) ==
  /\ isConnected' = FALSE
  /\ hasJoinedSession' = FALSE

\* what the transport does after a disconnect: with reconnection enabled it
\* retries after a lost connection; a close requested by the server ('io
\* server disconnect') or by the client is final unless the program calls
\* connect() again, and the handler has no such call
AfterDisconnect(reason) ==
  IF reason \in {"io server disconnect", "io client disconnect"}
    THEN "closed"
    ELSE "connecting"

\* the connection is over: its pending timers belong to no connection
ConnectionEnds(reason) ==
  /\ sock' = AfterDisconnect(reason)
  /\ reconnectDue' = (AfterDisconnect(reason) = "connecting")
  /\ timers' = [stale |-> timers.stale + timers.live, live |-> 0]
  /\ DisconnectHandler(reason)

\* the connection drops
OnDisconnect ==
  /\ Running
  /\ UNCHANGED <<rawSessionId, sessionId>>
  /\ SocketConnected
  /\ \E reason \in DisconnectReasons : ConnectionEnds(reason)
  /\ UNCHANGED <<logQueue, shutdown, exitCode, input, sent, joins, joinIds, epoch,
                 settled, refused, suppressed, interrupted>>

\* socket.on('connect_error'): prints, only while isConnected is false
OnConnectError ==
  /\ Running
  /\ sock = "connecting"
  /\ UNCHANGED vars

\* socket.on('reconnect_attempt'): empty handler
OnReconnectAttempt ==
  /\ Running
  /\ sock = "connecting"
  /\ epoch > 0
  /\ UNCHANGED vars

\* socket.on('reconnect_error'): empty handler
OnReconnectError ==
  /\ Running
  /\ sock = "connecting"
  /\ epoch > 0
  /\ UNCHANGED vars

\* socket.on('reconnect_failed'): prints
OnReconnectFailed ==
  /\ Running
  /\ sock = "connecting"
  /\ epoch > 0
  /\ UNCHANGED vars

\* ---- server refusal signals ----------------------------------------------

RateLimitData == {"message", "rateLimit"}

\* a rate-limit handler that also leaves the session, as the quota branch does
RateLimitHandler_ClearsJoined(data) ==
  /\ logQueue' = <<>>
  /\ hasJoinedSession' = FALSE
  /\ UNCHANGED <<isConnected, exitCode>>

\* socket.on('rate-limit-exceeded'): body of the handler
RateLimitHandler(data) ==
  /\ logQueue' = <<>>
  /\ UNCHANGED <<isConnected, hasJoinedSession, exitCode>>

OnRateLimitExceeded ==
  /\ Running
  /\ UNCHANGED <<rawSessionId, sessionId>>
  /\ SocketConnected
  /\ \E data \in RateLimitData : RateLimitHandler(data)
  /\ refused' = TRUE
  /\ UNCHANGED <<sock, timers, shutdown, input, sent, joins, joinIds, epoch,
                 reconnectDue, settled, suppressed, interrupted>>

ErrorData == {"History Limit Reached", "string", "message", "other"}

\* an error handler that ends the process on the hard quota
ErrorHandler_Fatal(data) ==
  /\ IF data = "History Limit Reached"
       THEN /\ logQueue' = <<>>
            /\ hasJoinedSession' = FALSE
            /\ exitCode' = 1
       ELSE UNCHANGED <<logQueue, hasJoinedSession, exitCode>>
  /\ UNCHANGED isConnected

\* socket.on('error'): body of the handler
ErrorHandler(data) ==
  /\ IF data = "History Limit Reached"
       THEN /\ logQueue' = <<>>
            /\ hasJoinedSession' = FALSE
       ELSE UNCHANGED <<logQueue, hasJoinedSession>>
  /\ UNCHANGED <<isConnected, exitCode>>

OnError ==
  /\ Running
  /\ UNCHANGED <<rawSessionId, sessionId>>
  /\ SocketConnected
  /\ \E data \in ErrorData :
       /\ ErrorHandler(data)
       /\ refused' = (refused \/ data = "History Limit Reached")
       /\ suppressed' = (suppressed \/ data = "History Limit Reached")
  /\ UNCHANGED <<sock, timers, shutdown, input, sent, joins, joinIds, epoch,
                 reconnectDue, settled, interrupted>>

\* ---- input -----------------------------------------------------------------

\* LineHandler with the else branch lost: an event read while the connection
\* is not joined is dropped instead of queued
LineHandler_Drops(line) ==
  LET trimmedLine == Trim(line)
      logData == Decode(trimmedLine, Len(input) + 1)
  IN IF Len(trimmedLine) > 0 /\ isConnected /\ hasJoinedSession
          /\ SocketConnected
       THEN /\ sent' = Append(sent, CliEmit(logData))
            /\ UNCHANGED logQueue
       ELSE UNCHANGED <<sent, logQueue>>

\* LineHandler that tests the line as read, not the trimmed one, for emptiness
LineHandler_TestsUntrimmed(line) ==
  LET trimmedLine == Trim(line)
      logData == Decode(trimmedLine, Len(input) + 1)
  IN IF Len(line) = 0
       THEN UNCHANGED <<sent, logQueue>>
       ELSE IF isConnected /\ hasJoinedSession /\ SocketConnected
              THEN /\ sent' = Append(sent, CliEmit(logData))
                   /\ UNCHANGED logQueue
              ELSE /\ logQueue' = Append(logQueue, logData)
                   /\ UNCHANGED sent

\* LineHandler without the socket.connected test
LineHandler_IgnoresSocket(line) ==
  LET trimmedLine == Trim(line)
      logData == Decode(trimmedLine, Len(input) + 1)
  IN IF Len(trimmedLine) = 0
       THEN UNCHANGED <<sent, logQueue>>
       ELSE IF isConnected /\ hasJoinedSession
              THEN /\ sent' = Append(sent, CliEmit(logData))
                   /\ UNCHANGED logQueue
              ELSE /\ logQueue' = Append(logQueue, logData)
                   /\ UNCHANGED sent

\* rl.on('line'): body of the handler
LineHandler(line) ==
  LET trimmedLine == Trim(line)
      logData == Decode(trimmedLine, Len(input) + 1)
  IN IF Len(trimmedLine) = 0
       THEN UNCHANGED <<sent, logQueue>>
       ELSE IF isConnected /\ hasJoinedSession /\ SocketConnected
              THEN /\ sent' = Append(sent, CliEmit(logData))
                   /\ UNCHANGED logQueue
              ELSE /\ logQueue' = Append(logQueue, logData)
                   /\ UNCHANGED sent

OnLine ==
  /\ Running
  /\ UNCHANGED <<rawSessionId, sessionId>>
  /\ shutdown = "none"
  /\ Len(input) < MaxLines
  /\ \E line \in RawLines :
       /\ LineHandler(line)
       /\ input' = Append(input, line)
  /\ UNCHANGED <<isConnected, hasJoinedSession, sock, timers, shutdown,
                 exitCode, joins, joinIds, epoch, reconnectDue, settled, refused,
                 suppressed, interrupted>>

\* ---- shutdown --------------------------------------------------------------

\* socket.disconnect() called by the program: the transport closes for good
\* and, when it was connected, fires 'disconnect' before the call returns
SocketDisconnect ==
  IF SocketConnected
    THEN ConnectionEnds("io client disconnect")
    ELSE /\ sock' = "closed"
         /\ reconnectDue' = FALSE
         /\ UNCHANGED <<timers, isConnected, hasJoinedSession>>

\* waitForQueue that gives up when the connection is dead with items queued
waitForQueue_Forfeits ==
  IF Len(logQueue) = 0 \/ (~isConnected /\ Len(logQueue) > 0)
    THEN /\ IF SocketConnected
              THEN SocketDisconnect
              ELSE UNCHANGED <<sock, reconnectDue, timers, isConnected,
                               hasJoinedSession>>
         /\ shutdown' = "exit"
    ELSE /\ shutdown' = "poll"
         /\ UNCHANGED <<sock, reconnectDue, timers, isConnected,
                        hasJoinedSession>>

\* waitForQueue that ends the wait whenever the connection is up
waitForQueue_NoWait ==
  IF Len(logQueue) = 0 \/ isConnected
    THEN /\ IF SocketConnected
              THEN SocketDisconnect
              ELSE UNCHANGED <<sock, reconnectDue, timers, isConnected,
                               hasJoinedSession>>
         /\ shutdown' = "exit"
    ELSE /\ shutdown' = "poll"
         /\ UNCHANGED <<sock, reconnectDue, timers, isConnected,
                        hasJoinedSession>>

\* const waitForQueue = () => {...}
waitForQueue ==
  IF Len(logQueue) = 0 \/ (~isConnected /\ Len(logQueue) > 0)
    THEN IF ~isConnected /\ Len(logQueue) > 0
           THEN /\ shutdown' = "poll"
                /\ UNCHANGED <<sock, reconnectDue, timers, isConnected,
                               hasJoinedSession>>
           ELSE /\ IF SocketConnected
                     THEN SocketDisconnect
                     ELSE UNCHANGED <<sock, reconnectDue, timers,
                                      isConnected, hasJoinedSession>>
                /\ shutdown' = "exit"
    ELSE /\ shutdown' = "poll"
         /\ UNCHANGED <<sock, reconnectDue, timers, isConnected,
                        hasJoinedSession>>

\* rl.on('close'): end of input, first call of waitForQueue
OnClose ==
  /\ Running
  /\ UNCHANGED <<rawSessionId, sessionId>>
  /\ shutdown = "none"
  /\ waitForQueue
  /\ UNCHANGED <<logQueue, exitCode, input, sent, joins, joinIds, epoch, settled,
                 refused, suppressed, interrupted>>

\* setTimeout(waitForQueue, ...) fires
PollTimer ==
  /\ Running
  /\ UNCHANGED <<rawSessionId, sessionId>>
  /\ shutdown = "poll"
  /\ waitForQueue
  /\ UNCHANGED <<logQueue, exitCode, input, sent, joins, joinIds, epoch, settled,
                 refused, suppressed, interrupted>>

\* setTimeout(() => process.exit(0), 100) fires
ExitTimer ==
  /\ Running
  /\ UNCHANGED <<rawSessionId, sessionId>>
  /\ shutdown = "exit"
  /\ exitCode' = 0
  /\ UNCHANGED <<isConnected, hasJoinedSession, logQueue, sock, timers,
                 shutdown, input, sent, joins, joinIds, epoch, reconnectDue, settled,
                 refused, suppressed, interrupted>>

\* a SIGINT handler that flushes the queue before it exits
SigintHandler_Flushes ==
  /\ SocketDisconnect
  /\ exitCode' = 0
  /\ sent' = Drain(logQueue, sent)
  /\ logQueue' = <<>>
  /\ UNCHANGED <<joins, joinIds>>

\* process.on('SIGINT'): body of the handler
SigintHandler ==
  /\ SocketDisconnect
  /\ exitCode' = 0
  /\ UNCHANGED <<logQueue, sent, joins, joinIds>>

OnSigint ==
  /\ Running
  /\ UNCHANGED <<rawSessionId, sessionId>>
  /\ SigintHandler
  /\ interrupted' = TRUE
  /\ UNCHANGED <<shutdown, input, epoch, settled, refused, suppressed>>

Next ==
  \/ OnConnect
  \/ OnReconnect
  \/ SettleTimer
  \/ OnDisconnect
  \/ OnConnectError
  \/ OnReconnectAttempt
  \/ OnReconnectError
  \/ OnReconnectFailed
  \/ OnRateLimitExceeded
  \/ OnError
  \/ OnLine
  \/ OnClose
  \/ PollTimer
  \/ ExitTimer
  \/ OnSigint

Spec == Init /\ [][Next]_vars

\* the same program started with any of the session options
SessionInit == InitWith(SessionOptions)
SessionSpec == SessionInit /\ [][Next]_vars

\* ---- normalizeSessionId on its own -------------------------------------------

\* the arguments tried: null, and every string made of a head (a prefix of
\* 'vibex-', or 'Vibex-') followed by a tail of at most MaxIdTail characters
IdTailChars == {"v", "-", "a"}
IdTails == UNION {[1..n -> IdTailChars] : n \in 0..MaxIdTail}
IdHeads ==
  {SubSeq(Prefix, 1, n) : n \in 0..Len(Prefix)}
    \cup {<<"V", "i", "b", "e", "x", "-">>}
NormInputs == {Null} \cup {Str(h \o t) : h \in IdHeads, t \in IdTails}

NormInit ==
  /\ rawSessionId \in NormInputs
  /\ sessionId = Unset
  /\ CoreInit

\* sessionId = normalizeSessionId(rawSessionId)
Normalize ==
  /\ sessionId = Unset
  /\ sessionId' = normalizeSessionId(rawSessionId)
  /\ UNCHANGED <<isConnected, hasJoinedSession, logQueue, sock, timers,
                 shutdown, exitCode, input, sent, joins, joinIds,
                 rawSessionId, epoch, reconnectDue, settled, refused,
                 suppressed, interrupted>>

\* the result is normalized once more
NormalizeAgain ==
  /\ sessionId.kind = "string"
  /\ rawSessionId # sessionId
  /\ rawSessionId' = sessionId
  /\ sessionId' = normalizeSessionId(sessionId)
  /\ UNCHANGED <<isConnected, hasJoinedSession, logQueue, sock, timers,
                 shutdown, exitCode, input, sent, joins, joinIds, epoch,
                 reconnectDue, settled, refused, suppressed, interrupted>>

NormNext ==
  \/ Normalize
  \/ NormalizeAgain

NormSpec == NormInit /\ [][NormNext]_vars

\* a timer that is due fires: the settle timers, the shutdown poll and the
\* exit timer; the transport and the input are under no obligation
FairSpec ==
  /\ Spec
  /\ WF_vars(SettleTimer)
  /\ WF_vars(PollTimer)
  /\ WF_vars(ExitTimer)

\* ---- properties ------------------------------------------------------------

NonEmptyIds == {i \in 1..Len(input) : Len(Trim(input[i])) > 0}
InSent(i) == \E k \in 1..Len(sent) : sent[k].id = i
InQueue(i) == \E k \in 1..Len(logQueue) : logQueue[k].id = i
ImmediateSend == isConnected /\ hasJoinedSession /\ SocketConnected
EndedByInput == exitCode # NotExited /\ ~interrupted

\* C1: the cli-emit calls come in input order: no event is emitted before an
\* event whose line was read earlier.
C1_EmitsInInputOrder ==
  \A i, j \in 1..Len(sent) : i < j => sent[i].id < sent[j].id

\* C2: without SIGINT and without a server refusal signal, every non-empty
\* line read is either already emitted or still queued, and when the process
\* has exited after end of input every one of them has been emitted.
C2_AtLeastOnce ==
  ~refused =>
    /\ \A i \in NonEmptyIds : InSent(i) \/ InQueue(i)
    /\ EndedByInput => \A i \in NonEmptyIds : InSent(i)

\* C2 witness: the process ended after end of input, without refusal, having
\* read two events of which one waited in the queue for a second connection.
C2_Witness ==
  /\ EndedByInput
  /\ ~refused
  /\ Cardinality(NonEmptyIds) >= 2
  /\ epoch >= 2
  /\ \A i \in NonEmptyIds : InSent(i)

\* C3: whenever the queue is not empty the immediate-send condition of the
\* line handler is false.
C3_QueueBlocksImmediateSend ==
  Len(logQueue) > 0 => ~ImmediateSend

\* C4: on a connection no cli-emit is emitted before a join-session was
\* emitted and a settle timer started on that connection has fired.
C4_NoEmitBeforeSettle ==
  [][(Len(sent') > Len(sent) /\ SocketConnected) => (joins > 0 /\ settled')]_vars

\* C5: exactly one join-session is emitted for each connection establishment.
C5_OneJoinPerConnection ==
  joins = epoch

\* C6: a hard-quota signal leaves the queue empty, and from then until the
\* next connect event no cli-emit is emitted.
C6_QuotaSuppressesEmits ==
  [][/\ (~suppressed /\ suppressed') => logQueue' = <<>>
     /\ suppressed => sent' = sent]_vars

\* C7 (as stated): a run of the shutdown wait that finds the queue empty, or
\* the connection dead with items still queued, ends the wait and schedules
\* the exit.
C7_WaitEndsWhenDead ==
  [][((OnClose \/ PollTimer) /\ (Len(logQueue) = 0 \/ ~isConnected))
       => shutdown' = "exit"]_vars

\* C7 (amended): a run of the shutdown wait ends the wait only when the queue
\* is empty; it then leaves the transport not connected and the process
\* exits with status 0 and an empty queue; with items queued, connection dead
\* or not, it polls again and changes nothing.
C7_WaitEndsOnlyWhenEmpty ==
  [][/\ (OnClose \/ PollTimer) =>
          IF Len(logQueue) = 0
            THEN shutdown' = "exit" /\ sock' # "connected"
            ELSE /\ shutdown' = "poll"
                 /\ UNCHANGED <<logQueue, exitCode, sock, isConnected>>
     /\ (exitCode' # exitCode /\ ~interrupted') =>
          /\ shutdown = "exit"
          /\ exitCode' = 0
          /\ Len(logQueue') = 0]_vars

\* C7 witness: the shutdown wait is polling while the connection is dead and
\* an event is still queued.
C7_Witness ==
  /\ Running
  /\ shutdown = "poll"
  /\ ~isConnected
  /\ sock = "closed"
  /\ Len(logQueue) > 0

\* C8: the SIGINT step closes the transport and exits with status 0 without
\* emitting or dequeuing anything, and nothing is emitted afterwards.
C8_SigintExitsAtOnce ==
  [][/\ (~interrupted /\ interrupted') =>
          /\ exitCode' = 0
          /\ sock' = "closed"
          /\ sent' = sent
          /\ logQueue' = logQueue
     /\ interrupted => sent' = sent]_vars

\* C8 witness: interrupted with events still queued, a settle timer pending
\* and a shutdown poll pending.
C8_Witness ==
  /\ interrupted
  /\ Len(logQueue) > 0
  /\ timers.stale + timers.live > 0
  /\ shutdown = "poll"

\* C9: a transport or server signal neither ends the process nor closes the
\* input; the process ends only by SIGINT or by the exit the end-of-input
\* shutdown scheduled; and while the input is open a non-empty line is
\* emitted or enqueued.
C9_SignalsNeverFatal ==
  [][/\ (\/ OnConnect \/ OnReconnect \/ OnDisconnect \/ OnConnectError
         \/ OnReconnectAttempt \/ OnReconnectError \/ OnReconnectFailed
         \/ OnRateLimitExceeded \/ OnError)
          => (exitCode' = NotExited /\ shutdown' = shutdown)
     /\ exitCode' # exitCode =>
          (~interrupted /\ interrupted') \/ shutdown = "exit"
     /\ (Running /\ shutdown = "none" /\ Len(input') > Len(input)
           /\ Len(Trim(input'[Len(input')])) > 0)
          => Len(sent') + Len(logQueue') = Len(sent) + Len(logQueue) + 1]_vars

\* C9 witness: after a failed handshake, a drop, both refusal signals and
\* a second connection, the process still runs and has an event in hand.
C9_Witness ==
  /\ Running
  /\ shutdown = "none"
  /\ refused
  /\ suppressed
  /\ epoch >= 2
  /\ Len(sent) + Len(logQueue) > 0

\* C10: while the process is neither interrupted nor shutting down the
\* transport has not given up: it is connected or trying to connect.
C10_NeverGivesUp ==
  (Running /\ shutdown = "none") => sock \in {"connecting", "connected"}

\* what the decoder is to produce for line number i of the input
TrimmedInput(i) == Trim(input[i])
ExpectedType(i) == IF JsonParses(TrimmedInput(i)) THEN "json" ELSE "text"
ExpectedPayload(i) ==
  IF JsonParses(TrimmedInput(i))
    THEN JsonParse(TrimmedInput(i))
    ELSE [k |-> "string", n |-> 0, s |-> TrimmedInput(i)]
Carries(m) ==
  /\ m.id \in NonEmptyIds
  /\ m.type = ExpectedType(m.id)
  /\ m.payload = ExpectedPayload(m.id)
NewLineRead == Len(input') > Len(input) /\ Len(Trim(input'[Len(input')])) > 0
NewLogData ==
  [id |-> Len(input'),
   type |-> ExpectedType(Len(input))',
   payload |-> ExpectedPayload(Len(input))']
NewEvent ==
  [sessionId |-> sessionId, id |-> NewLogData.id,
   type |-> NewLogData.type, payload |-> NewLogData.payload]
TimersPending == timers.stale + timers.live
SettleFires == TimersPending' < TimersPending
QueueAsEmits ==
  [i \in 1..Len(logQueue) |->
     [sessionId |-> sessionId, id |-> logQueue[i].id,
      type |-> logQueue[i].type, payload |-> logQueue[i].payload]]

\* C11: every non-empty line yields exactly one event, of kind json with the
\* parsed value when the trimmed line parses and of kind text with the
\* trimmed line otherwise, and every queued event and every cli-emit carries
\* that kind and payload.
C11_EventsCarryDecodedLine ==
  /\ \A k \in 1..Len(sent) : Carries(sent[k])
  /\ \A k \in 1..Len(logQueue) : Carries(logQueue[k])
  /\ \A i \in NonEmptyIds : refused \/ InSent(i) \/ InQueue(i)

\* C11 witness: a JSON line was emitted with its parsed value and a text
\* line with its trimmed text, one of them after waiting in the queue.
C11_Witness ==
  /\ Len(sent) = 2
  /\ \E k \in 1..2 : sent[k].type = "json" /\ sent[k].payload.k = "number"
  /\ \E k \in 1..2 : sent[k].type = "text" /\ sent[k].payload.s = <<"h", "i">>
  /\ sent[1].id = 1
  /\ epoch >= 2

\* C12: a non-empty line is emitted once and the queue left alone when the
\* connection is joined and the transport connected; otherwise it is
\* appended to the tail of the queue and nothing is emitted.
C12_EmitOrEnqueue ==
  [][NewLineRead =>
       IF ImmediateSend
         THEN sent' = Append(sent, NewEvent) /\ logQueue' = logQueue
         ELSE logQueue' = Append(logQueue, NewLogData) /\ sent' = sent]_vars

\* C12 witness: the first line was emitted at once and the second queued
\* behind a reconnect signal that left isConnected true on a dead transport.
C12_Witness ==
  /\ Len(sent) = 1
  /\ Len(logQueue) = 1
  /\ sent[1].id = 1
  /\ logQueue[1].id = 2
  /\ isConnected
  /\ ~SocketConnected

\* C13: a step that removes events from the queue by emitting them is taken
\* with the transport connected and the connection flagged connected.
C13_DrainOnlyWhenConnected ==
  [][(Len(logQueue') < Len(logQueue) /\ Len(sent') > Len(sent))
       => (SocketConnected /\ isConnected)]_vars

\* C14: hasJoinedSession implies isConnected.
C14_JoinedImpliesConnected ==
  hasJoinedSession => isConnected

\* C15: a settle timer that fires on a live connection emits the whole
\* queue in one step, each event once and in queue order, and leaves the
\* queue empty and hasJoinedSession true.
C15_DrainIsAtomicAndOrdered ==
  [][(SettleFires /\ SocketConnected) =>
       /\ sent' = sent \o QueueAsEmits
       /\ logQueue' = <<>>
       /\ hasJoinedSession']_vars

\* C15 witness: on the first connection, with no other timer ever started,
\* the settle timer has fired and two events have gone out in input order.
C15_Witness ==
  /\ epoch = 1
  /\ joins = 1
  /\ SocketConnected
  /\ settled
  /\ hasJoinedSession
  /\ TimersPending = 0
  /\ Len(logQueue) = 0
  /\ Len(sent) = 2
  /\ sent[1].id = 1

IsPrefix(p, q) == Len(p) <= Len(q) /\ SubSeq(q, 1, Len(p)) = p
Occurrences(i) ==
  Cardinality({k \in 1..Len(sent) : sent[k].id = i})
    + Cardinality({k \in 1..Len(logQueue) : logQueue[k].id = i})

\* C16: after end of input, if there is no SIGINT and the transport is
\* connected from some point on and stays so until the program itself closes
\* it, the process eventually exits with status 0.
C16_ExitsWhenConnected ==
  <>[](/\ shutdown # "none"
       /\ ~interrupted
       /\ (SocketConnected \/ shutdown = "exit"))
    => <>(exitCode = 0)

\* C17: a disconnect, whatever its reason, clears both flags, leaves the
\* queue and the emits alone and does not end the process; and while the
\* transport is down the queue only grows at its tail, so what was queued is
\* still queued, in order, when the next connection comes up.
C17_DisconnectKeepsQueue ==
  [][/\ (SocketConnected /\ ~SocketConnected' /\ shutdown' = shutdown
           /\ ~interrupted') =>
          /\ ~isConnected'
          /\ ~hasJoinedSession'
          /\ logQueue' = logQueue
          /\ sent' = sent
          /\ exitCode' = NotExited
     /\ (~SocketConnected /\ ~SocketConnected') =>
          IsPrefix(logQueue, logQueue')]_vars

\* C18: a rate-limit-exceeded signal empties the queue and changes nothing
\* else, and a line read in a joined state after it is emitted at once.
C18_RateLimitOnlyClearsQueue ==
  [][/\ OnRateLimitExceeded =>
          /\ logQueue' = <<>>
          /\ UNCHANGED <<isConnected, hasJoinedSession, exitCode, sock,
                         timers, shutdown, sent, joins, input>>
     /\ (refused /\ NewLineRead /\ ImmediateSend) =>
          sent' = Append(sent, NewEvent)]_vars

\* C18 witness: on the first connection, so that the refusal was a rate
\* limit and not the hard quota, the first event was cleared from the queue
\* and the second was emitted in a joined state.
C18_Witness ==
  /\ epoch = 1
  /\ refused
  /\ ~suppressed
  /\ isConnected
  /\ hasJoinedSession
  /\ SocketConnected
  /\ Len(input) = 2
  /\ Len(sent) = 1
  /\ sent[1].id = 2
  /\ Len(logQueue) = 0
  /\ NonEmptyIds = {1, 2}

\* C19: every decoded event is in the queue or emitted, never both and never
\* twice, and an event that is in neither place was discarded by a queue
\* clear of a refusal signal.
C19_EventsConserved ==
  /\ \A i \in NonEmptyIds : Occurrences(i) <= 1
  /\ \A k \in 1..Len(sent) : sent[k].id \in NonEmptyIds
  /\ \A k \in 1..Len(logQueue) : logQueue[k].id \in NonEmptyIds
  /\ (\E i \in NonEmptyIds : Occurrences(i) = 0) => refused

\* C19 witness: two settle timers were started for one reconnection and both
\* have fired, one event was emitted once and one was discarded by a clear.
C19_Witness ==
  /\ joins > epoch
  /\ TimersPending = 0
  /\ NonEmptyIds = {1, 2}
  /\ \E i \in NonEmptyIds : Occurrences(i) = 0
  /\ \E i \in NonEmptyIds : InSent(i)

\* C20: the exit of the end-of-input shutdown is scheduled, and taken, only
\* with an empty queue: what is lost at such an exit was cleared by a server
\* refusal signal.
C20_ExitOnlyWithEmptyQueue ==
  /\ shutdown = "exit" => Len(logQueue) = 0
  /\ EndedByInput => \A i \in NonEmptyIds : InSent(i) \/ refused

\* C20 witness: the process ended after end of input, after a refusal
\* signal and a second connection, with an event emitted and nothing queued.
C20_Witness ==
  /\ EndedByInput
  /\ shutdown = "exit"
  /\ refused
  /\ epoch >= 2
  /\ Len(sent) >= 1
  /\ Len(logQueue) = 0

BlankLineRead ==
  Len(input') > Len(input) /\ Len(Trim(input'[Len(input')])) = 0

\* C21: a line that is empty or only whitespace produces no event and
\* changes no state: no emit, the queue and the connection flags unchanged.
C21_BlankLineIsNoOp ==
  [][BlankLineRead =>
       UNCHANGED <<sent, logQueue, isConnected, hasJoinedSession, sock,
                   timers, shutdown, exitCode, joins, joinIds,
                   sessionId>>]_vars

\* C21 witness: after an event was queued a whitespace-only line was read
\* and the queue still holds just that event.
C21_Witness ==
  /\ Len(input) = 2
  /\ Len(input[2]) > 0
  /\ Len(Trim(input[2])) = 0
  /\ Len(logQueue) = 1
  /\ logQueue[1].id = 1

SessionIdCarried ==
  /\ sessionId.kind = "string"
  /\ StartsWith(sessionId.s, Prefix)
  /\ \A j \in joinIds : j = sessionId
  /\ \A k \in 1..Len(sent) : sent[k].sessionId = sessionId

\* C22: the session id never changes, it starts with 'vibex-', and every
\* join-session and every cli-emit of the run carries it.
C22_SessionIdFixed ==
  [][sessionId' = sessionId /\ SessionIdCarried']_vars

\* C22 witness: started with an id given without the prefix, the program
\* has joined on two connections and emitted an event.
C22_Witness ==
  /\ rawSessionId # sessionId
  /\ epoch >= 2
  /\ joins >= 2
  /\ joinIds = {sessionId}
  /\ Len(sent) >= 1

\* C23: for a non-empty string normalizeSessionId returns a string that
\* starts with 'vibex-', and returns the argument itself when it already
\* starts with 'vibex-' (so normalizing a result again changes nothing);
\* for null or the empty string it returns null.
C23_NormalizeIdempotent ==
  sessionId # Unset =>
    /\ ~Falsy(rawSessionId) =>
         /\ sessionId.kind = "string"
         /\ StartsWith(sessionId.s, Prefix)
         /\ Len(sessionId.s) > 0
    /\ (~Falsy(rawSessionId) /\ StartsWith(rawSessionId.s, Prefix)) =>
         sessionId = rawSessionId
    /\ Falsy(rawSessionId) => sessionId = Null
    /\ sessionId.kind = "string" => normalizeSessionId(sessionId) = sessionId

\* C23 witness: a result that got the prefix added was normalized again and
\* came back unchanged.
C23_Witness ==
  /\ sessionId.kind = "string"
  /\ rawSessionId = sessionId
  /\ Len(sessionId.s) >= 8
  /\ SubSeq(sessionId.s, 1, 8) = Prefix \o <<"v", "i">>
====
